---- MODULE Spec2Model ----
(***************************************************************************)
(* Client-side synchronisation layer of the vessel-monitoring dashboard:   *)
(*   - the connection manager of frontend/src/hooks/useWebSocket.js        *)
(*     (reconnect with capped exponential backoff, heartbeat, teardown);   *)
(*   - the entity stores of frontend/src/App.jsx fed by the dispatched     *)
(*     server messages, and the zone geometry of components/Map.jsx with   *)
(*     its locally edited overrides and edit handles;                      *)
(*   - the dispatch of received frames to the registered handlers, and     *)
(*     the later DashboardPage variant of the page (zone deletion and      *)
(*     addition, vessel track overlays).                                   *)
(***************************************************************************)
EXTENDS Integers, Sequences, FiniteSets, TLC

\* ---------------------------------------------------------------- bounds
\* Number of WebSocket objects one effect instance may create.
MaxSockets == 7
\* Number of ping frames recorded before the heartbeat tick is cut off.
MaxPings == 2

\* Largest incident id the server sends.
MaxId == 2
\* Number of incidents held before the incident message is cut off.
MaxIncidents == 3
\* Distinct incidents delivered between two mode changes: two past the cap.
MaxDelivered == 52
\* Largest zone-centre coordinate a drag may reach (half-degree units).
MaxCoord == 4
\* Number of re-renders (handler re-registrations) followed.
MaxRenders == 2
\* Number of trackShip calls started.
MaxCalls == 2
\* Number of zones the operator adds.
MaxZones == 2

\* ------------------------------------------------------ program constants
\* useWebSocket.js:54  Math.min(1000 * 2 ** retries, 15000)
baseDelay == 1000
capDelay == 15000
\* App.jsx:40  [incident, ...prev].slice(0, 50)
incidentCap == 50
\* Map.jsx:418  Math.max(0.5, ...), in half-degree units
minRadius == 1

\* ---------------------------------------------------------------- state
VARIABLES
  sockets,        \* every WebSocket created by connect(), in creation order
  wsCurrent,      \* ws.current: index of the latest socket, 0 = null
  retryTimeout,   \* handle held by `retryTimeout`: index into timeouts, 0 = null
  timeouts,       \* every setTimeout(connect, delay) issued, with its state
  retries,        \* `retries`
  torn,           \* the effect cleanup has run
  connected,      \* App state `connected` (onConnect / onDisconnect)
  pings,          \* number of {type:'ping'} frames sent
  nConnected,     \* number of onConnect calls (connected events)
  nDisconnected,  \* number of onDisconnect calls (disconnected events)
  delays,         \* delays scheduled since the last successful open
  lastEv          \* the event handled last: its type, its socket and the
                  \* readyState it found the socket in

connVars == <<sockets, wsCurrent, retryTimeout, timeouts, retries, torn,
              connected, pings, nConnected, nDisconnected, delays, lastEv>>

VARIABLES
  ships,          \* App state `ships`: list of mmsi
  shipsData,      \* Map.jsx ref `shipsData`: the mmsi its click lookup has a vessel for
  hotzones,       \* App state `hotzones`: zone name -> bounding box
  incidents,      \* App state `incidents`, newest first
  incidentIds,    \* incidentIds.current: the de-dup set
  agentStatus,    \* App state `agentStatus` (its stage)
  thresholds,     \* App state `thresholds`: region -> incident count
  report,         \* App state `report`, "null" when absent
  showReport,     \* App state `showReport`
  demoMode,       \* App state `demoMode`
  hasLiveKey,     \* App state `hasLiveKey`
  modeSwitching,  \* App state `modeSwitching`
  zoneOverrides,  \* App state `zoneOverrides`: zone name -> locally edited geometry
  editZones,      \* App state `editZones`
  dragging,       \* Map.jsx `dragging` of the drag-to-move handlers: <<>> = null, else <<d>>
  hotzoneSource,  \* data of the map source 'hotzones': zone name -> drawn geometry
  handles,        \* resizeMarkers.current / deleteMarkers.current: zone name ->
                  \* position of its resize and of its delete marker, and whether
                  \* the pointer (not an effect) put the resize marker there
  isDraggingMarker, \* isDraggingMarker.current: zone name, "" = null
  lastMsg,        \* type of the message or local intent handled last
  lastData        \* payload handed to the handler that ran last, keyed by
                  \* its message type; empty after a local intent

VARIABLES
  selectedShip,   \* state `selectedShip`: mmsi, 0 = null
  investigating,  \* state `investigating`
  investigatedVessel, \* DashboardPage state `investigatedVessel`: mmsi, 0 = null
  gfwPath,        \* DashboardPage state `gfwPath`: mmsi whose track it holds, 0 = null
  unmatchedPoints,\* DashboardPage state `unmatchedPoints`: mmsi, 0 = null
  calls,          \* trackShip calls started, each with the await it stands at
  deletedZones,   \* DashboardPage state `deletedZones`
  customZones,    \* DashboardPage state `customZones`: zone name -> bounding box
  zoneCount       \* zoneCountRef.current

VARIABLES
  page,           \* the component that mounted the hook: "App" or "DashboardPage"
  renders,        \* number of re-renders, i.e. of handler registrations after the first
  handlersRef,    \* handlersRef.current: the registration it points to
  lastFrame       \* the frame onmessage handled last: a bit flipped per frame,
                  \* whether it was JSON, its type and data, the registration
                  \* dispatch read, how onmessage ended, and how the frame
                  \* before it ended

entityVars == <<ships, shipsData, incidents, incidentIds, agentStatus, thresholds, report,
                showReport, demoMode, hasLiveKey, modeSwitching>>
zoneVars == <<hotzones, zoneOverrides, editZones, dragging, hotzoneSource,
             handles, isDraggingMarker>>
overlayVars == <<selectedShip, investigating, investigatedVessel, gfwPath,
                unmatchedPoints, calls>>
customVars == <<deletedZones, customZones, zoneCount>>
dashVars == <<overlayVars, customVars>>
dispatchVars == <<page, renders, handlersRef, lastFrame>>
storeVars == <<entityVars, zoneVars, lastMsg, lastData, dashVars, dispatchVars>>

vars == <<connVars, storeVars>>

\* ------------------------------------------------------------- helpers
RECURSIVE Pow2(_)
Pow2(n) == IF n = 0 THEN 1 ELSE 2 * Pow2(n - 1)

Min(a, b) == IF a < b THEN a ELSE b

\* Variant of Delay without the 15000 cap.
Delay_uncapped(r) == baseDelay * Pow2(r)

\* const delay = Math.min(1000 * 2 ** retries, 15000)
Delay(r) == Min(baseDelay * Pow2(r), capDelay)

NewSocket == [readyState |-> "CONNECTING", onclose |-> TRUE, pingInterval |-> "none"]

\* WebSocket.close(): a CONNECTING or OPEN socket starts closing, a CLOSING or
\* CLOSED one is left alone.  The close event is delivered later.
close(sock) ==
  IF sock.readyState \in {"CONNECTING", "OPEN"}
    THEN [sock EXCEPT !.readyState = "CLOSING"]
    ELSE sock

\* clearTimeout(h): cancels timer h if it is still pending.
clearTimeout(ts, h) ==
  IF h # 0 /\ ts[h].state = "pending"
    THEN [ts EXCEPT ![h].state = "cleared"]
    ELSE ts

PendingTimeouts == {t \in 1..Len(timeouts) : timeouts[t].state = "pending"}
ActiveIntervals == {s \in 1..Len(sockets) : sockets[s].pingInterval = "active"}
LiveSockets == {s \in 1..Len(sockets) : sockets[s].readyState \in {"CONNECTING", "OPEN"}}

\* ---------------------------------------------------------------- init
\* State right after the effect has run: connect() created the first socket.
InitConn ==
  /\ sockets = <<NewSocket>>
  /\ wsCurrent = 1
  /\ retryTimeout = 0
  /\ timeouts = <<>>
  /\ retries = 0
  /\ torn = FALSE
  /\ connected = FALSE
  /\ pings = 0
  /\ nConnected = 0
  /\ nDisconnected = 0
  /\ delays = <<>>
  /\ lastEv = [type |-> "connect", sock |-> 1, from |-> "none"]

\* Variant of onopen that does not reset retries.
onopen_keepsRetries(s) ==
  /\ sockets[s].readyState = "CONNECTING"
  /\ sockets' = [sockets EXCEPT ![s].readyState = "OPEN", ![s].pingInterval = "active"]
  /\ retries' = retries
  /\ connected' = TRUE
  /\ nConnected' = nConnected + 1
  /\ delays' = <<>>
  /\ lastEv' = [type |-> "open", sock |-> s, from |-> sockets[s].readyState]
  /\ UNCHANGED <<wsCurrent, retryTimeout, timeouts, torn, pings, nDisconnected>>
  /\ UNCHANGED storeVars

\* ------------------------------------------------------------- actions
\* socket.onopen: the handshake of socket s succeeded.  The open event is
\* delivered only to a socket that is still CONNECTING.
onopen(s) ==
  /\ sockets[s].readyState = "CONNECTING"
  /\ sockets' = [sockets EXCEPT ![s].readyState = "OPEN", ![s].pingInterval = "active"]
  /\ retries' = 0
  /\ connected' = TRUE
  /\ nConnected' = nConnected + 1
  /\ delays' = <<>>
  /\ lastEv' = [type |-> "open", sock |-> s, from |-> sockets[s].readyState]
  /\ UNCHANGED <<wsCurrent, retryTimeout, timeouts, torn, pings, nDisconnected>>
  /\ UNCHANGED storeVars

\* Variant of pingInterval that sends without looking at readyState.
pingInterval_ungated(s) ==
  /\ sockets[s].pingInterval = "active"
  /\ pings < MaxPings
  /\ pings' = pings + 1
  /\ lastEv' = [type |-> "tick", sock |-> s, from |-> sockets[s].readyState]
  /\ UNCHANGED <<sockets, wsCurrent, retryTimeout, timeouts, retries, torn,
                 connected, nConnected, nDisconnected, delays>>
  /\ UNCHANGED storeVars

\* The setInterval callback created in socket.onopen of socket s.
pingInterval(s) ==
  /\ sockets[s].pingInterval = "active"
  /\ pings < MaxPings
  /\ pings' = IF sockets[s].readyState = "OPEN" THEN pings + 1 ELSE pings
  /\ lastEv' = [type |-> "tick", sock |-> s, from |-> sockets[s].readyState]
  /\ UNCHANGED <<sockets, wsCurrent, retryTimeout, timeouts, retries, torn,
                 connected, nConnected, nDisconnected, delays>>
  /\ UNCHANGED storeVars

\* Variant of onclose that leaves the heartbeat interval running.
onclose_keepsInterval(s) ==
  /\ sockets[s].readyState # "CLOSED"
  /\ lastEv' = [type |-> "close", sock |-> s, from |-> sockets[s].readyState]
  /\ IF sockets[s].onclose
       THEN /\ sockets' = [sockets EXCEPT ![s].readyState = "CLOSED"]
            /\ connected' = FALSE
            /\ nDisconnected' = nDisconnected + 1
            /\ timeouts' = Append(timeouts, [delay |-> Delay(retries), state |-> "pending"])
            /\ retryTimeout' = Len(timeouts) + 1
            /\ delays' = Append(delays, Delay(retries))
            /\ retries' = retries + 1
       ELSE /\ sockets' = [sockets EXCEPT ![s].readyState = "CLOSED"]
            /\ UNCHANGED <<connected, nDisconnected, timeouts, retryTimeout, delays, retries>>
  /\ UNCHANGED <<wsCurrent, torn, pings, nConnected>>
  /\ UNCHANGED storeVars

\* Variant of onclose that does not report the disconnect.
onclose_silent(s) ==
  /\ sockets[s].readyState # "CLOSED"
  /\ lastEv' = [type |-> "close", sock |-> s, from |-> sockets[s].readyState]
  /\ IF sockets[s].onclose
       THEN /\ sockets' = [sockets EXCEPT ![s].readyState = "CLOSED",
                                          ![s].pingInterval =
                                             IF @ = "active" THEN "cleared" ELSE @]
            /\ connected' = connected
            /\ nDisconnected' = nDisconnected
            /\ timeouts' = Append(timeouts, [delay |-> Delay(retries), state |-> "pending"])
            /\ retryTimeout' = Len(timeouts) + 1
            /\ delays' = Append(delays, Delay(retries))
            /\ retries' = retries + 1
       ELSE /\ sockets' = [sockets EXCEPT ![s].readyState = "CLOSED"]
            /\ UNCHANGED <<connected, nDisconnected, timeouts, retryTimeout, delays, retries>>
  /\ UNCHANGED <<wsCurrent, torn, pings, nConnected>>
  /\ UNCHANGED storeVars

\* Variant of onclose that schedules no reconnect.
onclose_noRetry(s) ==
  /\ sockets[s].readyState # "CLOSED"
  /\ lastEv' = [type |-> "close", sock |-> s, from |-> sockets[s].readyState]
  /\ IF sockets[s].onclose
       THEN /\ sockets' = [sockets EXCEPT ![s].readyState = "CLOSED",
                                          ![s].pingInterval =
                                             IF @ = "active" THEN "cleared" ELSE @]
            /\ connected' = FALSE
            /\ nDisconnected' = nDisconnected + 1
            /\ timeouts' = timeouts
            /\ retryTimeout' = retryTimeout
            /\ delays' = Append(delays, Delay(retries))
            /\ retries' = retries + 1
       ELSE /\ sockets' = [sockets EXCEPT ![s].readyState = "CLOSED"]
            /\ UNCHANGED <<connected, nDisconnected, timeouts, retryTimeout, delays, retries>>
  /\ UNCHANGED <<wsCurrent, torn, pings, nConnected>>
  /\ UNCHANGED storeVars

\* The close event of socket s; socket.onclose runs if it is still attached.
onclose(s) ==
  /\ sockets[s].readyState # "CLOSED"
  /\ lastEv' = [type |-> "close", sock |-> s, from |-> sockets[s].readyState]
  /\ IF sockets[s].onclose
       THEN /\ sockets' = [sockets EXCEPT ![s].readyState = "CLOSED",
                                          ![s].pingInterval =
                                             IF @ = "active" THEN "cleared" ELSE @]
            /\ connected' = FALSE
            /\ nDisconnected' = nDisconnected + 1
            /\ timeouts' = Append(timeouts, [delay |-> Delay(retries), state |-> "pending"])
            /\ retryTimeout' = Len(timeouts) + 1
            /\ delays' = Append(delays, Delay(retries))
            /\ retries' = retries + 1
       ELSE /\ sockets' = [sockets EXCEPT ![s].readyState = "CLOSED"]
            /\ UNCHANGED <<connected, nDisconnected, timeouts, retryTimeout, delays, retries>>
  /\ UNCHANGED <<wsCurrent, torn, pings, nConnected>>
  /\ UNCHANGED storeVars

\* Variant of onerror that also schedules a reconnect itself.
onerror_reconnects(s) ==
  /\ sockets[s].readyState \in {"CONNECTING", "OPEN", "CLOSING"}
  /\ sockets' = [sockets EXCEPT ![s] = close(@)]
  /\ timeouts' = Append(timeouts, [delay |-> Delay(retries), state |-> "pending"])
  /\ retryTimeout' = Len(timeouts) + 1
  /\ lastEv' = [type |-> "error", sock |-> s, from |-> sockets[s].readyState]
  /\ UNCHANGED <<wsCurrent, retries, torn, connected,
                 pings, nConnected, nDisconnected, delays>>
  /\ UNCHANGED storeVars

\* Variant of onerror that leaves the socket alone.
onerror_ignored(s) ==
  /\ sockets[s].readyState \in {"CONNECTING", "OPEN", "CLOSING"}
  /\ sockets' = sockets
  /\ lastEv' = [type |-> "error", sock |-> s, from |-> sockets[s].readyState]
  /\ UNCHANGED <<wsCurrent, retryTimeout, timeouts, retries, torn, connected,
                 pings, nConnected, nDisconnected, delays>>
  /\ UNCHANGED storeVars

\* socket.onerror = () => socket.close()
onerror(s) ==
  /\ sockets[s].readyState \in {"CONNECTING", "OPEN", "CLOSING"}
  /\ sockets' = [sockets EXCEPT ![s] = close(@)]
  /\ lastEv' = [type |-> "error", sock |-> s, from |-> sockets[s].readyState]
  /\ UNCHANGED <<wsCurrent, retryTimeout, timeouts, retries, torn, connected,
                 pings, nConnected, nDisconnected, delays>>
  /\ UNCHANGED storeVars

\* A pending setTimeout(connect, delay) fires and runs connect().
connect(t) ==
  /\ timeouts[t].state = "pending"
  /\ Len(sockets) < MaxSockets
  /\ timeouts' = [timeouts EXCEPT ![t].state = "fired"]
  /\ sockets' = Append(sockets, NewSocket)
  /\ wsCurrent' = Len(sockets) + 1
  /\ lastEv' = [type |-> "connect", sock |-> Len(sockets) + 1, from |-> "none"]
  /\ UNCHANGED <<retryTimeout, retries, torn, connected, pings, nConnected,
                 nDisconnected, delays>>
  /\ UNCHANGED storeVars

\* Variant of cleanup that does not clear the reconnect timeout.
cleanup_keepsTimeout ==
  /\ torn' = TRUE
  /\ timeouts' = timeouts
  /\ sockets' = IF wsCurrent # 0
                  THEN [sockets EXCEPT ![wsCurrent] = close([@ EXCEPT !.onclose = FALSE])]
                  ELSE sockets
  /\ lastEv' = [type |-> "cleanup", sock |-> wsCurrent,
                from |-> IF wsCurrent # 0 THEN sockets[wsCurrent].readyState ELSE "none"]
  /\ UNCHANGED <<wsCurrent, retryTimeout, retries, connected, pings, nConnected,
                 nDisconnected, delays>>
  /\ UNCHANGED storeVars

\* Variant of cleanup that reports a disconnect each time it runs.
cleanup_reportsDisconnect ==
  /\ torn' = TRUE
  /\ timeouts' = clearTimeout(timeouts, retryTimeout)
  /\ sockets' = IF wsCurrent # 0
                  THEN [sockets EXCEPT ![wsCurrent] = close([@ EXCEPT !.onclose = FALSE])]
                  ELSE sockets
  /\ connected' = FALSE
  /\ nDisconnected' = nDisconnected + 1
  /\ lastEv' = [type |-> "cleanup", sock |-> wsCurrent,
                from |-> IF wsCurrent # 0 THEN sockets[wsCurrent].readyState ELSE "none"]
  /\ UNCHANGED <<wsCurrent, retryTimeout, retries, pings, nConnected, delays>>
  /\ UNCHANGED storeVars

\* The effect cleanup returned by useEffect.  Nothing in it depends on
\* whether it has run before, so it may be run again.
cleanup ==
  /\ torn' = TRUE
  /\ timeouts' = clearTimeout(timeouts, retryTimeout)
  /\ sockets' = IF wsCurrent # 0
                  THEN [sockets EXCEPT ![wsCurrent] = close([@ EXCEPT !.onclose = FALSE])]
                  ELSE sockets
  /\ lastEv' = [type |-> "cleanup", sock |-> wsCurrent,
                from |-> IF wsCurrent # 0 THEN sockets[wsCurrent].readyState ELSE "none"]
  /\ UNCHANGED <<wsCurrent, retryTimeout, retries, connected, pings, nConnected,
                 nDisconnected, delays>>
  /\ UNCHANGED storeVars

NextConn ==
  \/ \E s \in 1..Len(sockets) : onopen(s)
  \/ \E s \in 1..Len(sockets) : pingInterval(s)
  \/ \E s \in 1..Len(sockets) : onclose(s)
  \/ \E s \in 1..Len(sockets) : onerror(s)
  \/ \E t \in 1..Len(timeouts) : connect(t)
  \/ cleanup

\* ================================================================ stores
\* The operator log (addLog / logs) is display history only and is left out.
\* Coordinates are integers in half-degree units; the boxes are chosen so that
\* the halving in getZoneGeo is exact.
EmptyMap == [n \in {} |-> 0]

\* The elements of a list.
Range(seq) == {seq[i] : i \in 1..Len(seq)}

ZoneNames == {"Hormuz", "Suez"}
BoxA == [min_lon |-> 0, max_lon |-> 4, min_lat |-> 0, max_lat |-> 4]
BoxB == [min_lon |-> 0, max_lon |-> 2, min_lat |-> 0, max_lat |-> 6]
FullMap(b) == [n \in ZoneNames |-> b]
\* Zone snapshots an init message carries: no zone, one zone, every zone with
\* either box, and a mixed one.
ZoneSnapshots == {EmptyMap, [n \in {"Hormuz"} |-> BoxA], FullMap(BoxA), FullMap(BoxB),
                  [n \in ZoneNames |-> IF n = "Hormuz" THEN BoxB ELSE BoxA]}
ShipLists == {<<>>, <<1>>, <<2, 1>>}
\* Pointer positions: a zone is pressed at longitude 0 and dragged to 2; the
\* resize handle is dragged to longitude 0.  Latitude stays 0.
PressLng == {0}
MoveLng == {2}
ResizeLng == {0}
MouseLat == {0}
Scores == {80}
\* confidence_score of an incident no evaluation has scored (undefined)
NoScore == -1
IncidentTypes == {"sabotage"}

Max(a, b) == IF a > b THEN a ELSE b
Abs(a) == IF a < 0 THEN -a ELSE a

\* function getZoneGeo(name, hz, overrides)
getZoneGeo(name, hz, overrides) ==
  IF name \in DOMAIN overrides
    THEN overrides[name]
    ELSE [centerLon |-> (hz.min_lon + hz.max_lon) \div 2,
          centerLat |-> (hz.min_lat + hz.max_lat) \div 2,
          radius |-> Max((hz.max_lon - hz.min_lon) \div 2, (hz.max_lat - hz.min_lat) \div 2)]

\* function buildHotzoneFeatures(hotzones, overrides): one feature per server
\* zone, its polygon being circlePolygon of the zone's geometry.
buildHotzoneFeatures(hz, overrides) ==
  [name \in DOMAIN hz |-> getZoneGeo(name, hz[name], overrides)]

\* setZoneOverrides(prev => ({ ...prev, [name]: geo }))
handleZoneChange(prev, name, geo) ==
  [n \in DOMAIN prev \cup {name} |-> IF n = name THEN geo ELSE prev[n]]

\* const visibleHotzones = { ...hotzones without deletedZones, ...customZones }
visibleHotzones(hz, deleted, custom) ==
  [n \in (DOMAIN hz \ deleted) \cup DOMAIN custom |->
     IF n \in DOMAIN custom THEN custom[n] ELSE hz[n]]

\* The zones the mounted page hands to Map as its `hotzones` prop.
MapHotzones ==
  IF page = "App" THEN hotzones ELSE visibleHotzones(hotzones, deletedZones, customZones)

\* Positions the handle effects give the two markers of a zone:
\* [edgeLon, centerLat] and [centerLon, centerLat].
HandleAt(geo) ==
  [resize |-> <<geo.centerLon + geo.radius, geo.centerLat>>,
   del |-> <<geo.centerLon, geo.centerLat>>,
   byPointer |-> FALSE]

\* Variant of createHandles that places the markers on the canonical geometry.
createHandles_canonical(edit, hz, overrides) ==
  IF edit
    THEN [name \in DOMAIN hz |-> HandleAt(getZoneGeo(name, hz[name], EmptyMap))]
    ELSE EmptyMap

\* Effect on [editZones, mapReady, hotzones, onDeleteZone]: removes every
\* marker and, in edit mode, creates the two markers of every zone.
createHandles(edit, hz, overrides) ==
  IF edit
    THEN [name \in DOMAIN hz |-> HandleAt(getZoneGeo(name, hz[name], overrides))]
    ELSE EmptyMap

\* Effect on [zoneOverrides, editZones, mapReady, hotzones]: moves the existing
\* markers, except those of the zone whose resize marker is being dragged.
syncHandles(old, edit, hz, overrides, skip) ==
  IF edit
    THEN [name \in DOMAIN old |->
            IF name \in DOMAIN hz /\ name # skip
              THEN HandleAt(getZoneGeo(name, hz[name], overrides))
              ELSE old[name]]
    ELSE old

\* Variant of slice that keeps every element.
slice_keepsAll(s, n) == s

\* [incident, ...prev].slice(0, 50)
slice(s, n) == SubSeq(s, 1, Min(Len(s), n))

InitStore ==
  /\ ships = <<>>
  /\ shipsData = {}
  /\ hotzones = EmptyMap
  /\ incidents = <<>>
  /\ incidentIds = {}
  /\ agentStatus = "idle"
  /\ thresholds = EmptyMap
  /\ report = "null"
  /\ showReport = FALSE
  /\ demoMode = FALSE
  /\ hasLiveKey = FALSE
  /\ modeSwitching = FALSE
  /\ zoneOverrides = EmptyMap
  /\ editZones = FALSE
  /\ dragging = <<>>
  /\ hotzoneSource = EmptyMap
  /\ handles = EmptyMap
  /\ isDraggingMarker = ""
  /\ lastMsg = "none"
  /\ lastData = EmptyMap
  /\ selectedShip = 0
  /\ investigating = FALSE
  /\ investigatedVessel = 0
  /\ gfwPath = 0
  /\ unmatchedPoints = 0
  /\ calls = <<>>
  /\ deletedZones = {}
  /\ customZones = EmptyMap
  /\ zoneCount = 0
  /\ renders = 0
  /\ handlersRef = 0
  /\ lastFrame = [tick |-> 0, json |-> FALSE, type |-> "", data |-> EmptyMap,
                  handlers |-> 0, outcome |-> "none", prev |-> "none",
                  crash |-> FALSE]

\* Variant of onInit that also resets the zone overrides.
onInit_dropsOverrides(data) ==
  /\ ships' = data.ships
  /\ shipsData' = shipsData \cup Range(data.ships)
  /\ hotzones' = data.hotzones
  /\ demoMode' = data.demo_mode
  /\ hasLiveKey' = data.has_live_key
  /\ modeSwitching' = FALSE
  /\ incidentIds' = {}
  /\ hotzoneSource' = buildHotzoneFeatures(data.hotzones, EmptyMap)
  /\ zoneOverrides' = EmptyMap
  /\ handles' = createHandles(editZones, data.hotzones, EmptyMap)
  /\ lastMsg' = "init"
  /\ lastData' = [t \in {"init"} |-> data]
  /\ UNCHANGED <<incidents, agentStatus, thresholds, report, showReport,
                 editZones, dragging, isDraggingMarker>>
  /\ UNCHANGED dashVars
  /\ UNCHANGED connVars

\* Variant of onInit that also empties the incident collection.
onInit_clearsIncidents(data) ==
  /\ ships' = data.ships
  /\ shipsData' = shipsData \cup Range(data.ships)
  /\ hotzones' = data.hotzones
  /\ demoMode' = data.demo_mode
  /\ hasLiveKey' = data.has_live_key
  /\ modeSwitching' = FALSE
  /\ incidentIds' = {}
  /\ incidents' = <<>>
  /\ hotzoneSource' = buildHotzoneFeatures(data.hotzones, zoneOverrides)
  /\ handles' = createHandles(editZones, data.hotzones, zoneOverrides)
  /\ lastMsg' = "init"
  /\ lastData' = [t \in {"init"} |-> data]
  /\ UNCHANGED <<agentStatus, thresholds, report, showReport,
                 zoneOverrides, editZones, dragging, isDraggingMarker>>
  /\ UNCHANGED dashVars
  /\ UNCHANGED connVars

\* onInit: (data) => ...; the map effect on [hotzones, zoneOverrides] redraws.
onInit(data) ==
  /\ ships' = data.ships
  /\ shipsData' = shipsData \cup Range(data.ships)
  /\ hotzones' = data.hotzones
  /\ demoMode' = data.demo_mode
  /\ hasLiveKey' = data.has_live_key
  /\ modeSwitching' = FALSE
  /\ incidentIds' = {}
  /\ hotzoneSource' = buildHotzoneFeatures(data.hotzones, zoneOverrides)
  /\ handles' = createHandles(editZones, data.hotzones, zoneOverrides)
  /\ lastMsg' = "init"
  /\ lastData' = [t \in {"init"} |-> data]
  /\ UNCHANGED <<incidents, agentStatus, thresholds, report, showReport,
                 zoneOverrides, editZones, dragging, isDraggingMarker>>
  /\ UNCHANGED dashVars
  /\ UNCHANGED connVars

\* onModeChange: (data) => ...
onModeChange(data) ==
  /\ demoMode' = data.demo_mode
  /\ hasLiveKey' = data.has_live_key
  /\ modeSwitching' = FALSE
  /\ ships' = <<>>
  /\ shipsData' = shipsData \cup Range(<<>>)
  /\ incidents' = <<>>
  /\ thresholds' = EmptyMap
  /\ report' = "null"
  /\ showReport' = FALSE
  /\ agentStatus' = "idle"
  /\ incidentIds' = {}
  /\ lastMsg' = "mode_change"
  /\ lastData' = [t \in {"mode_change"} |-> data]
  /\ UNCHANGED zoneVars
  /\ UNCHANGED dashVars
  /\ UNCHANGED connVars

\* onShips: (data) => setShips(data)
onShips(data) ==
  /\ ships' = data
  /\ shipsData' = shipsData \cup Range(data)
  /\ lastMsg' = "ships"
  /\ lastData' = [t \in {"ships"} |-> data]
  /\ UNCHANGED <<incidents, incidentIds, agentStatus, thresholds, report,
                 showReport, demoMode, hasLiveKey, modeSwitching>>
  /\ UNCHANGED zoneVars
  /\ UNCHANGED dashVars
  /\ UNCHANGED connVars

\* Variant of addIncident whose de-dup set remembers the newest id only.
addIncident_forgets(incident) ==
  IF incident.id \in incidentIds
    THEN UNCHANGED <<incidents, incidentIds>>
    ELSE /\ incidentIds' = {incident.id}
         /\ incidents' = slice(<<incident>> \o incidents, incidentCap)

\* addIncident(incident)
addIncident(incident) ==
  IF incident.id \in incidentIds
    THEN UNCHANGED <<incidents, incidentIds>>
    ELSE /\ incidentIds' = incidentIds \cup {incident.id}
         /\ incidents' = slice(<<incident>> \o incidents, incidentCap)

\* onIncident: (data) => { addIncident(data); ... }
onIncident(data) ==
  /\ addIncident(data)
  /\ lastMsg' = "incident"
  /\ lastData' = [t \in {"incident"} |-> data]
  /\ UNCHANGED <<ships, shipsData, agentStatus, thresholds, report, showReport, demoMode,
                 hasLiveKey, modeSwitching>>
  /\ UNCHANGED zoneVars
  /\ UNCHANGED dashVars
  /\ UNCHANGED connVars

\* Variant of onEvaluation that inserts a record for an unknown incident id.
onEvaluation_inserts(data) ==
  /\ incidents' = IF \E i \in 1..Len(incidents) : incidents[i].id = data.incident_id
                    THEN [i \in 1..Len(incidents) |->
                            IF incidents[i].id = data.incident_id
                              THEN [incidents[i] EXCEPT !.confidence_score = data.confidence_score,
                                                        !.incident_type = data.incident_type]
                              ELSE incidents[i]]
                    ELSE <<[id |-> data.incident_id,
                            confidence_score |-> data.confidence_score,
                            incident_type |-> data.incident_type]>> \o incidents
  /\ lastMsg' = "evaluation"
  /\ lastData' = [t \in {"evaluation"} |-> data]
  /\ UNCHANGED <<ships, shipsData, incidentIds, agentStatus, thresholds, report, showReport,
                 demoMode, hasLiveKey, modeSwitching>>
  /\ UNCHANGED zoneVars
  /\ UNCHANGED dashVars
  /\ UNCHANGED connVars

\* Variant of onEvaluation that scores the newest incident whatever its id.
onEvaluation_newest(data) ==
  /\ incidents' = [i \in 1..Len(incidents) |->
                     IF i = 1
                       THEN [incidents[i] EXCEPT !.confidence_score = data.confidence_score,
                                                 !.incident_type = data.incident_type]
                       ELSE incidents[i]]
  /\ lastMsg' = "evaluation"
  /\ lastData' = [t \in {"evaluation"} |-> data]
  /\ UNCHANGED <<ships, shipsData, incidentIds, agentStatus, thresholds, report, showReport,
                 demoMode, hasLiveKey, modeSwitching>>
  /\ UNCHANGED zoneVars
  /\ UNCHANGED dashVars
  /\ UNCHANGED connVars

\* onEvaluation: (data) => setIncidents(prev => prev.map(...))
onEvaluation(data) ==
  /\ incidents' = [i \in 1..Len(incidents) |->
                     IF incidents[i].id = data.incident_id
                       THEN [incidents[i] EXCEPT !.confidence_score = data.confidence_score,
                                                 !.incident_type = data.incident_type]
                       ELSE incidents[i]]
  /\ lastMsg' = "evaluation"
  /\ lastData' = [t \in {"evaluation"} |-> data]
  /\ UNCHANGED <<ships, shipsData, incidentIds, agentStatus, thresholds, report, showReport,
                 demoMode, hasLiveKey, modeSwitching>>
  /\ UNCHANGED zoneVars
  /\ UNCHANGED dashVars
  /\ UNCHANGED connVars

\* The handle effects that run after a change of zoneOverrides.  App hands
\* Map its `hotzones` state, so only the sync effect runs; DashboardPage
\* hands it a fresh visibleHotzones object on every render, so the create
\* effect runs too and replaces every marker.
refreshHandles(overrides, skip) ==
  IF page = "App"
    THEN syncHandles(handles, editZones, MapHotzones, overrides, skip)
    ELSE createHandles(editZones, MapHotzones, overrides)

\* onClick={() => setEditZones(v => !v)}
toggleEditZones ==
  /\ editZones' = ~editZones
  /\ handles' = createHandles(~editZones, MapHotzones, zoneOverrides)
  /\ lastMsg' = "toggle_edit"
  /\ lastData' = EmptyMap
  /\ UNCHANGED <<hotzones, zoneOverrides, dragging, hotzoneSource, isDraggingMarker>>
  /\ UNCHANGED entityVars
  /\ UNCHANGED dashVars
  /\ UNCHANGED dispatchVars
  /\ UNCHANGED connVars

\* map.current.on('mousedown', 'hotzone-fill', ...): a press on a drawn zone.
\* One pointer drives one drag at a time: no resize marker is being dragged.
mousedown(name, lng, lat) ==
  /\ isDraggingMarker = ""
  /\ name \in DOMAIN hotzoneSource
  /\ editZones
  /\ name \in DOMAIN MapHotzones
  /\ dragging' = <<[name |-> name, startLng |-> lng, startLat |-> lat,
                    startCenter |-> getZoneGeo(name, MapHotzones[name], zoneOverrides)]>>
  /\ lastMsg' = "mousedown"
  /\ lastData' = EmptyMap
  /\ UNCHANGED <<hotzones, zoneOverrides, editZones, hotzoneSource, handles,
                 isDraggingMarker>>
  /\ UNCHANGED entityVars
  /\ UNCHANGED dashVars
  /\ UNCHANGED dispatchVars
  /\ UNCHANGED connVars

\* map.current.on('mousemove', ...): moves the zone being dragged.
mousemove(lng, lat) ==
  /\ dragging # <<>>
  /\ LET d == dragging[1]
         geo == [centerLon |-> d.startCenter.centerLon + (lng - d.startLng),
                 centerLat |-> d.startCenter.centerLat + (lat - d.startLat),
                 radius |-> d.startCenter.radius]
     IN /\ geo.centerLon \in 0..MaxCoord
        /\ zoneOverrides' = handleZoneChange(zoneOverrides, d.name, geo)
        /\ hotzoneSource' = buildHotzoneFeatures(MapHotzones, zoneOverrides')
        /\ handles' = refreshHandles(zoneOverrides', isDraggingMarker)
  /\ lastMsg' = "mousemove"
  /\ lastData' = EmptyMap
  /\ UNCHANGED <<hotzones, editZones, dragging, isDraggingMarker>>
  /\ UNCHANGED entityVars
  /\ UNCHANGED dashVars
  /\ UNCHANGED dispatchVars
  /\ UNCHANGED connVars

\* map.current.on('mouseup', ...)
mouseup ==
  /\ dragging # <<>>
  /\ dragging' = <<>>
  /\ lastMsg' = "mouseup"
  /\ lastData' = EmptyMap
  /\ UNCHANGED <<hotzones, zoneOverrides, editZones, hotzoneSource, handles,
                 isDraggingMarker>>
  /\ UNCHANGED entityVars
  /\ UNCHANGED dashVars
  /\ UNCHANGED dispatchVars
  /\ UNCHANGED connVars

\* marker.on('dragstart', ...) and marker.on('drag', ...) of a zone's resize
\* marker, which the pointer has moved to longitude lng.  The latitude factor
\* cos(centerLat) of the new radius is taken as 1.
resizeDrag(name, lng) ==
  /\ dragging = <<>>
  /\ isDraggingMarker \in {"", name}
  /\ name \in DOMAIN handles
  /\ name \in DOMAIN MapHotzones
  /\ LET cur == getZoneGeo(name, MapHotzones[name], zoneOverrides)
         newRadius == Max(minRadius, Abs(lng - cur.centerLon))
     IN /\ zoneOverrides' = handleZoneChange(zoneOverrides, name, [cur EXCEPT !.radius = newRadius])
        /\ hotzoneSource' = buildHotzoneFeatures(MapHotzones, zoneOverrides')
        /\ handles' = IF page = "App"
                        THEN [refreshHandles(zoneOverrides', name) EXCEPT
                                ![name].resize = <<lng, cur.centerLat>>,
                                ![name].byPointer = TRUE]
                        ELSE refreshHandles(zoneOverrides', name)
  /\ isDraggingMarker' = name
  /\ lastMsg' = "resize"
  /\ lastData' = EmptyMap
  /\ UNCHANGED <<hotzones, editZones, dragging>>
  /\ UNCHANGED entityVars
  /\ UNCHANGED dashVars
  /\ UNCHANGED dispatchVars
  /\ UNCHANGED connVars

\* marker.on('dragend', () => { isDraggingMarker.current = null })
dragend ==
  /\ isDraggingMarker # ""
  /\ isDraggingMarker' = ""
  /\ lastMsg' = "dragend"
  /\ lastData' = EmptyMap
  /\ UNCHANGED <<hotzones, zoneOverrides, editZones, dragging, hotzoneSource, handles>>
  /\ UNCHANGED entityVars
  /\ UNCHANGED dashVars
  /\ UNCHANGED dispatchVars
  /\ UNCHANGED connVars

\* ------------------------------------------------- remaining App handlers
Stages == {"evaluating", "aborted"}
Regions == {"Hormuz"}
Reports == {"r1"}
AgentData == [stage : Stages]
ThresholdData == [region : Regions, incident_count : {1}]
\* Types the switch has no case for: one whose handler DashboardPage registers,
\* and an envelope without a type.
UnroutedTypes == {"investigation_start", "undefined"}

\* onAgentStatus: (data) => { setAgentStatus(data); addLog(...) }
onAgentStatus(data) ==
  /\ agentStatus' = data.stage
  /\ lastMsg' = "agent_status"
  /\ lastData' = [t \in {"agent_status"} |-> data]
  /\ UNCHANGED <<ships, shipsData, incidents, incidentIds, thresholds, report, showReport,
                 demoMode, hasLiveKey, modeSwitching>>
  /\ UNCHANGED zoneVars
  /\ UNCHANGED dashVars
  /\ UNCHANGED connVars

\* onThresholdUpdate: (data) => setThresholds(prev => ({ ...prev, [data.region]: data }))
onThresholdUpdate(data) ==
  /\ thresholds' = [r \in DOMAIN thresholds \cup {data.region} |->
                      IF r = data.region THEN data.incident_count ELSE thresholds[r]]
  /\ lastMsg' = "threshold_update"
  /\ lastData' = [t \in {"threshold_update"} |-> data]
  /\ UNCHANGED <<ships, shipsData, incidents, incidentIds, agentStatus, report, showReport,
                 demoMode, hasLiveKey, modeSwitching>>
  /\ UNCHANGED zoneVars
  /\ UNCHANGED dashVars
  /\ UNCHANGED connVars

\* onReport: (data) => { setReport(data); setShowReport(true); setInvestigating(false) }
\* (the same text in App.jsx and in DashboardPage)
onReport(data) ==
  /\ report' = data
  /\ showReport' = TRUE
  /\ investigating' = FALSE
  /\ lastMsg' = "report"
  /\ lastData' = [t \in {"report"} |-> data]
  /\ UNCHANGED <<ships, shipsData, incidents, incidentIds, agentStatus, thresholds,
                 demoMode, hasLiveKey, modeSwitching>>
  /\ UNCHANGED zoneVars
  /\ UNCHANGED <<selectedShip, investigatedVessel, gfwPath, unmatchedPoints, calls>>
  /\ UNCHANGED customVars
  /\ UNCHANGED connVars

\* ---------------------------------------------------------- DashboardPage
\* DashboardPage onInit: (data) => ...
dash_onInit(data) ==
  /\ ships' = data.ships
  /\ shipsData' = shipsData \cup Range(data.ships)
  /\ hotzones' = data.hotzones
  /\ demoMode' = data.demo_mode
  /\ hasLiveKey' = data.has_live_key
  /\ modeSwitching' = FALSE
  /\ hotzoneSource' = buildHotzoneFeatures(
                        visibleHotzones(data.hotzones, deletedZones, customZones),
                        zoneOverrides)
  /\ handles' = createHandles(editZones,
                              visibleHotzones(data.hotzones, deletedZones, customZones),
                              zoneOverrides)
  /\ lastMsg' = "init"
  /\ lastData' = [t \in {"init"} |-> data]
  /\ UNCHANGED <<incidents, incidentIds, agentStatus, thresholds, report, showReport,
                 zoneOverrides, editZones, dragging, isDraggingMarker>>
  /\ UNCHANGED dashVars
  /\ UNCHANGED connVars

\* Variant of the DashboardPage onModeChange that keeps the track overlays.
dash_onModeChange_keepsOverlays(data) ==
  /\ demoMode' = data.demo_mode
  /\ hasLiveKey' = data.has_live_key
  /\ modeSwitching' = FALSE
  /\ ships' = <<>>
  /\ shipsData' = shipsData \cup Range(<<>>)
  /\ report' = "null"
  /\ showReport' = FALSE
  /\ agentStatus' = "idle"
  /\ investigatedVessel' = 0
  /\ investigating' = FALSE
  /\ lastMsg' = "mode_change"
  /\ lastData' = [t \in {"mode_change"} |-> data]
  /\ UNCHANGED <<incidents, incidentIds, thresholds, selectedShip, calls,
                 gfwPath, unmatchedPoints>>
  /\ UNCHANGED customVars
  /\ UNCHANGED zoneVars
  /\ UNCHANGED connVars

\* DashboardPage onModeChange: (data) => ...
dash_onModeChange(data) ==
  /\ demoMode' = data.demo_mode
  /\ hasLiveKey' = data.has_live_key
  /\ modeSwitching' = FALSE
  /\ ships' = <<>>
  /\ shipsData' = shipsData \cup Range(<<>>)
  /\ report' = "null"
  /\ showReport' = FALSE
  /\ agentStatus' = "idle"
  /\ investigatedVessel' = 0
  /\ gfwPath' = 0
  /\ unmatchedPoints' = 0
  /\ investigating' = FALSE
  /\ lastMsg' = "mode_change"
  /\ lastData' = [t \in {"mode_change"} |-> data]
  /\ UNCHANGED <<incidents, incidentIds, thresholds, selectedShip, calls>>
  /\ UNCHANGED customVars
  /\ UNCHANGED zoneVars
  /\ UNCHANGED connVars

\* DashboardPage onAgentStatus: an aborted run returns to idle and, like a
\* failed one, ends the investigation.
dash_onAgentStatus(data) ==
  /\ agentStatus' = IF data.stage = "aborted" THEN "idle" ELSE data.stage
  /\ investigating' = IF data.stage \in {"aborted", "error"} THEN FALSE ELSE investigating
  /\ lastMsg' = "agent_status"
  /\ lastData' = [t \in {"agent_status"} |-> data]
  /\ UNCHANGED <<ships, shipsData, incidents, incidentIds, thresholds, report, showReport,
                 demoMode, hasLiveKey, modeSwitching>>
  /\ UNCHANGED zoneVars
  /\ UNCHANGED <<selectedShip, investigatedVessel, gfwPath, unmatchedPoints, calls>>
  /\ UNCHANGED customVars
  /\ UNCHANGED connVars

\* handleDeleteZone(name): the click on the delete marker of a zone.
handleDeleteZone(name) ==
  /\ page = "DashboardPage"
  /\ name \in DOMAIN handles
  /\ deletedZones' = deletedZones \cup {name}
  /\ customZones' = [n \in DOMAIN customZones \ {name} |-> customZones[n]]
  /\ hotzoneSource' = buildHotzoneFeatures(
                        visibleHotzones(hotzones, deletedZones', customZones'),
                        zoneOverrides)
  /\ handles' = createHandles(editZones,
                              visibleHotzones(hotzones, deletedZones', customZones'),
                              zoneOverrides)
  /\ lastMsg' = "delete_zone"
  /\ lastData' = EmptyMap
  /\ UNCHANGED <<hotzones, zoneOverrides, editZones, dragging, isDraggingMarker>>
  /\ UNCHANGED zoneCount
  /\ UNCHANGED overlayVars
  /\ UNCHANGED entityVars
  /\ UNCHANGED dispatchVars
  /\ UNCHANGED connVars

\* `Zone ${zoneCountRef.current}`
ZoneName(k) == <<"Zone 1", "Zone 2", "Zone 3", "Zone 4">>[k]
\* const r = 5, in half-degree units
addRadius == 10

\* handleAddZone({ centerLon, centerLat }): the map click that places a zone
\* after the ADD ZONE button, which is shown in edit mode.
handleAddZone(centerLon, centerLat) ==
  /\ page = "DashboardPage"
  /\ editZones
  /\ zoneCount < MaxZones
  /\ zoneCount' = zoneCount + 1
  /\ customZones' = [n \in DOMAIN customZones \cup {ZoneName(zoneCount + 1)} |->
                       IF n = ZoneName(zoneCount + 1)
                         THEN [min_lon |-> centerLon - addRadius,
                               max_lon |-> centerLon + addRadius,
                               min_lat |-> centerLat - addRadius,
                               max_lat |-> centerLat + addRadius]
                         ELSE customZones[n]]
  /\ hotzoneSource' = buildHotzoneFeatures(
                        visibleHotzones(hotzones, deletedZones, customZones'),
                        zoneOverrides)
  /\ handles' = createHandles(editZones,
                              visibleHotzones(hotzones, deletedZones, customZones'),
                              zoneOverrides)
  /\ lastMsg' = "add_zone"
  /\ lastData' = EmptyMap
  /\ UNCHANGED <<hotzones, zoneOverrides, editZones, dragging, isDraggingMarker>>
  /\ UNCHANGED deletedZones
  /\ UNCHANGED overlayVars
  /\ UNCHANGED entityVars
  /\ UNCHANGED dispatchVars
  /\ UNCHANGED connVars

\* onSelectShip={(ship) => { setSelectedShip(ship); if (!ship) {...} }}: a
\* click on a drawn vessel (mmsi) or on the tooltip's close mark (0).
onSelectShip(mmsi) ==
  /\ page = "DashboardPage"
  /\ mmsi = 0 \/ \E i \in 1..Len(ships) : ships[i] = mmsi
  /\ selectedShip' = mmsi
  /\ gfwPath' = IF mmsi = 0 THEN 0 ELSE gfwPath
  /\ unmatchedPoints' = IF mmsi = 0 THEN 0 ELSE unmatchedPoints
  /\ lastMsg' = "select_ship"
  /\ lastData' = EmptyMap
  /\ UNCHANGED <<investigating, investigatedVessel, calls>>
  /\ UNCHANGED customVars
  /\ UNCHANGED entityVars
  /\ UNCHANGED zoneVars
  /\ UNCHANGED dispatchVars
  /\ UNCHANGED connVars

\* trackShip(mmsiOverride) up to its first await; the tooltip calls it with
\* selectedShip.mmsi.
trackShip ==
  /\ page = "DashboardPage"
  /\ selectedShip # 0
  /\ Len(calls) < MaxCalls
  /\ gfwPath' = 0
  /\ unmatchedPoints' = 0
  /\ investigatedVessel' = selectedShip
  /\ calls' = Append(calls, [mmsi |-> selectedShip, pc |-> "track"])
  /\ lastMsg' = "track"
  /\ lastData' = EmptyMap
  /\ UNCHANGED <<selectedShip, investigating>>
  /\ UNCHANGED customVars
  /\ UNCHANGED entityVars
  /\ UNCHANGED zoneVars
  /\ UNCHANGED dispatchVars
  /\ UNCHANGED connVars

\* trackShip resumes after `await fetch(TRACK_API/track)`: the track is
\* stored, or the request failed and the fallback request is sent.
trackResponse(c, ok) ==
  /\ calls[c].pc = "track"
  /\ gfwPath' = IF ok THEN calls[c].mmsi ELSE gfwPath
  /\ calls' = [calls EXCEPT ![c].pc = IF ok THEN "unmatched" ELSE "fallback"]
  /\ lastMsg' = "track_response"
  /\ lastData' = EmptyMap
  /\ UNCHANGED <<selectedShip, investigating, investigatedVessel, unmatchedPoints>>
  /\ UNCHANGED customVars
  /\ UNCHANGED entityVars
  /\ UNCHANGED zoneVars
  /\ UNCHANGED dispatchVars
  /\ UNCHANGED connVars

\* trackShip resumes after `await fetch(API/gfw-path)`: a path or an error
\* record for the mmsi is stored either way.
fallbackResponse(c) ==
  /\ calls[c].pc = "fallback"
  /\ gfwPath' = calls[c].mmsi
  /\ calls' = [calls EXCEPT ![c].pc = "unmatched"]
  /\ lastMsg' = "fallback_response"
  /\ lastData' = EmptyMap
  /\ UNCHANGED <<selectedShip, investigating, investigatedVessel, unmatchedPoints>>
  /\ UNCHANGED customVars
  /\ UNCHANGED entityVars
  /\ UNCHANGED zoneVars
  /\ UNCHANGED dispatchVars
  /\ UNCHANGED connVars

\* trackShip resumes after `await fetch(API/historical-unmatched)`.
unmatchedResponse(c) ==
  /\ calls[c].pc = "unmatched"
  /\ unmatchedPoints' = calls[c].mmsi
  /\ calls' = [calls EXCEPT ![c].pc = "done"]
  /\ lastMsg' = "unmatched_response"
  /\ lastData' = EmptyMap
  /\ UNCHANGED <<selectedShip, investigating, investigatedVessel, gfwPath>>
  /\ UNCHANGED customVars
  /\ UNCHANGED entityVars
  /\ UNCHANGED zoneVars
  /\ UNCHANGED dispatchVars
  /\ UNCHANGED connVars

\* submitInvestigation up to its first await; mmsi is the text of the input
\* box, here the mmsi of a vessel of the feed.
submitInvestigation(mmsi) ==
  /\ page = "DashboardPage"
  /\ ~investigating
  /\ mmsi \in Range(ships)
  /\ Len(calls) < MaxCalls
  /\ investigating' = TRUE
  /\ gfwPath' = 0
  /\ unmatchedPoints' = 0
  /\ selectedShip' = mmsi
  /\ investigatedVessel' = mmsi
  /\ calls' = Append(calls, [mmsi |-> mmsi, pc |-> "investigate"])
  /\ lastMsg' = "investigate"
  /\ lastData' = EmptyMap
  /\ UNCHANGED customVars
  /\ UNCHANGED entityVars
  /\ UNCHANGED zoneVars
  /\ UNCHANGED dispatchVars
  /\ UNCHANGED connVars

\* submitInvestigation resumes after `await fetch(API/investigate)`; a failed
\* request resets investigating and investigatedVessel.  The request for the
\* unmatched points follows either way.
investigateResponse(c, ok) ==
  /\ calls[c].pc = "investigate"
  /\ investigating' = IF ok THEN investigating ELSE FALSE
  /\ investigatedVessel' = IF ok THEN investigatedVessel ELSE 0
  /\ calls' = [calls EXCEPT ![c].pc = "unmatched"]
  /\ lastMsg' = "investigate_response"
  /\ lastData' = EmptyMap
  /\ UNCHANGED <<selectedShip, gfwPath, unmatchedPoints>>
  /\ UNCHANGED customVars
  /\ UNCHANGED entityVars
  /\ UNCHANGED zoneVars
  /\ UNCHANGED dispatchVars
  /\ UNCHANGED connVars

\* --------------------------------------------------------------- dispatch
\* Handler names of the object each page passes to useWebSocket.
Registered(p) ==
  IF p = "App"
    THEN {"onConnect", "onDisconnect", "onInit", "onModeChange", "onShips",
          "onIncident", "onEvaluation", "onAgentStatus", "onThresholdUpdate",
          "onReport"}
    ELSE {"onConnect", "onDisconnect", "onInit", "onModeChange", "onShips",
          "onAgentStatus", "onInvestigationStart", "onGfwPath",
          "onUnmatchedPoints", "onReport"}

\* Variant of the switch whose init case calls the mode_change handler.
HandlerOf_initAsModeChange(type) ==
  CASE type = "init" -> "onModeChange"
    [] type = "ships" -> "onShips"
    [] type = "incident" -> "onIncident"
    [] type = "evaluation" -> "onEvaluation"
    [] type = "agent_status" -> "onAgentStatus"
    [] type = "threshold_update" -> "onThresholdUpdate"
    [] type = "report" -> "onReport"
    [] type = "mode_change" -> "onModeChange"
    [] type = "heartbeat" -> "none"
    [] OTHER -> "none"

\* The switch of dispatch: the handler name each message type selects.
HandlerOf(type) ==
  CASE type = "init" -> "onInit"
    [] type = "ships" -> "onShips"
    [] type = "incident" -> "onIncident"
    [] type = "evaluation" -> "onEvaluation"
    [] type = "agent_status" -> "onAgentStatus"
    [] type = "threshold_update" -> "onThresholdUpdate"
    [] type = "report" -> "onReport"
    [] type = "mode_change" -> "onModeChange"
    [] type = "heartbeat" -> "none"
    [] OTHER -> "none"

\* The closure the mounted page registered under a handler name.
Call(name, data) ==
  CASE name = "onInit" -> IF page = "App" THEN onInit(data) ELSE dash_onInit(data)
    [] name = "onModeChange" ->
         IF page = "App" THEN onModeChange(data) ELSE dash_onModeChange(data)
    [] name = "onShips" -> onShips(data)
    [] name = "onIncident" -> Len(incidents) < MaxIncidents /\ onIncident(data)
    [] name = "onEvaluation" -> onEvaluation(data)
    [] name = "onAgentStatus" ->
         IF page = "App" THEN onAgentStatus(data) ELSE dash_onAgentStatus(data)
    [] name = "onThresholdUpdate" -> onThresholdUpdate(data)
    [] name = "onReport" -> onReport(data)

\* No handler runs: no store is written.
noHandler ==
  /\ UNCHANGED <<entityVars, zoneVars, lastMsg, lastData, dashVars>>
  /\ UNCHANGED connVars

\* h.onX?.(data): the call is skipped when the page registered no such handler.
optCall(name, data) ==
  IF name \in Registered(page) THEN Call(name, data) ELSE noHandler

\* A handler called with data undefined or null (a frame such as
\* {"type": "report"}): its statements run up to the first read of a property
\* of data, which throws a TypeError.  State set before that stays set.
\* onInit, onModeChange and addIncident read data in their first statement;
\* onEvaluation and onThresholdUpdate queue an updater and throw in addLog's
\* argument; onAgentStatus and onReport store the value and then throw.
\* (onShips stores its argument without reading it and is no case here.)
CallNoData(name) ==
  /\ CASE name \in {"onInit", "onModeChange", "onIncident", "onEvaluation",
                    "onThresholdUpdate"} ->
             UNCHANGED <<entityVars, investigating>>
        [] name = "onAgentStatus" ->
             /\ agentStatus' = "undefined"
             /\ UNCHANGED <<ships, shipsData, incidents, incidentIds, thresholds, report,
                            showReport, demoMode, hasLiveKey, modeSwitching,
                            investigating>>
        [] name = "onReport" ->
             /\ report' = "undefined"
             /\ showReport' = TRUE
             /\ investigating' = FALSE
             /\ UNCHANGED <<ships, shipsData, incidents, incidentIds, agentStatus, thresholds,
                            demoMode, hasLiveKey, modeSwitching>>
  /\ UNCHANGED <<lastMsg, lastData>>
  /\ UNCHANGED zoneVars
  /\ UNCHANGED <<selectedShip, investigatedVessel, gfwPath, unmatchedPoints, calls>>
  /\ UNCHANGED customVars
  /\ UNCHANGED connVars

\* The updater a handler called without data has queued reads data when React
\* runs it in the next render: prev => ({ ...prev, [data.region]: data })
\* always, prev.map(inc => inc.id === data.incident_id ...) for the first
\* incident of a collection that has one.
QueuesThrowingUpdater(name) ==
  \/ name = "onThresholdUpdate"
  \/ name = "onEvaluation" /\ incidents # <<>>

\* dispatch(msg): const h = handlersRef.current; switch (msg.type) ...
dispatch(msg) ==
  LET name == HandlerOf(msg.type)
      called == name # "none" /\ name \in Registered(page)
  IN IF "data" \in DOMAIN msg
       THEN /\ lastFrame' = [tick |-> 1 - lastFrame.tick, json |-> TRUE, type |-> msg.type,
                             data |-> [t \in {msg.type} |-> msg.data],
                             handlers |-> handlersRef, outcome |-> "dispatched",
                             prev |-> lastFrame.outcome, crash |-> lastFrame.crash]
            /\ IF name # "none" THEN optCall(name, msg.data) ELSE noHandler
       ELSE /\ lastFrame' = [tick |-> 1 - lastFrame.tick, json |-> TRUE, type |-> msg.type,
                             data |-> EmptyMap, handlers |-> handlersRef,
                             outcome |-> IF called THEN "threw" ELSE "dispatched",
                             prev |-> lastFrame.outcome,
                             crash |-> lastFrame.crash
                                         \/ (called /\ QueuesThrowingUpdater(name))]
            /\ IF called THEN CallNoData(name) ELSE noHandler

\* A received frame: its text is JSON or not, and a JSON text decodes to msg.
Envelope(type, data) == [json |-> TRUE, msg |-> [type |-> type, data |-> data]]
Garbage == [json |-> FALSE, msg |-> [type |-> "", data |-> 0]]
\* A JSON frame without data: {"type": type}.
NoData(type) == [json |-> TRUE, msg |-> [type |-> type]]

\* Variant of onmessage that is also delivered to a socket still connecting.
onmessage_beforeOpen(s, frame) ==
  /\ sockets[s].readyState \in {"CONNECTING", "OPEN"}
  /\ IF frame.json
       THEN dispatch(frame.msg)
       ELSE /\ lastFrame' = [tick |-> 1 - lastFrame.tick, json |-> FALSE, type |-> "",
                             data |-> EmptyMap, handlers |-> handlersRef,
                             outcome |-> "caught", prev |-> lastFrame.outcome,
                             crash |-> lastFrame.crash]
            /\ noHandler
  /\ UNCHANGED <<page, renders, handlersRef>>

\* Variant of onmessage that closes the socket on a frame that is not JSON.
onmessage_closesOnGarbage(s, frame) ==
  /\ sockets[s].readyState = "OPEN"
  /\ IF frame.json
       THEN dispatch(frame.msg)
       ELSE /\ lastFrame' = [tick |-> 1 - lastFrame.tick, json |-> FALSE, type |-> "",
                             data |-> EmptyMap, handlers |-> handlersRef,
                             outcome |-> "caught", prev |-> lastFrame.outcome,
                             crash |-> lastFrame.crash]
            /\ UNCHANGED <<entityVars, zoneVars, lastMsg, lastData, dashVars>>
            /\ sockets' = [sockets EXCEPT ![s] = close(sockets[s])]
            /\ lastEv' = lastEv
            /\ UNCHANGED <<wsCurrent, retryTimeout, timeouts, retries, torn, connected,
                           pings, nConnected, nDisconnected, delays>>
  /\ UNCHANGED <<page, renders, handlersRef>>

\* socket.onmessage = (e) => { try { dispatch(JSON.parse(e.data)) } catch {} }
\* The browser delivers a message event only while the socket is OPEN.
onmessage(s, frame) ==
  /\ sockets[s].readyState = "OPEN"
  /\ IF frame.json
       THEN dispatch(frame.msg)
       ELSE /\ lastFrame' = [tick |-> 1 - lastFrame.tick, json |-> FALSE, type |-> "",
                             data |-> EmptyMap, handlers |-> handlersRef,
                             outcome |-> "caught", prev |-> lastFrame.outcome,
                             crash |-> lastFrame.crash]
            /\ noHandler
  /\ UNCHANGED <<page, renders, handlersRef>>

\* Variant of render without the assignment handlersRef.current = handlers.
render_keepsRef ==
  /\ renders < MaxRenders
  /\ renders' = renders + 1
  /\ handlersRef' = handlersRef
  /\ UNCHANGED <<page, lastFrame>>
  /\ UNCHANGED <<entityVars, zoneVars, lastMsg, lastData, dashVars>>
  /\ UNCHANGED connVars

\* A re-render of the page runs the hook body again:
\* handlersRef.current = handlers, the object of fresh closures.
render ==
  /\ renders < MaxRenders
  /\ renders' = renders + 1
  /\ handlersRef' = renders + 1
  /\ UNCHANGED <<page, lastFrame>>
  /\ UNCHANGED <<entityVars, zoneVars, lastMsg, lastData, dashVars>>
  /\ UNCHANGED connVars

\* React runs queued updaters while rendering, after the message handler has
\* returned and outside its try.  An updater that throws there fails the
\* render; neither page has an error boundary, so React unmounts the tree and
\* the hook's effect cleanup runs.
renderThrows ==
  /\ lastFrame.crash
  /\ ~torn
  /\ cleanup

InitData(S, H, K) == [ships : S, hotzones : H, demo_mode : BOOLEAN, has_live_key : K]
ModeData(K) == [demo_mode : BOOLEAN, has_live_key : K]
IncidentData == [id : 1..MaxId, confidence_score : {NoScore}, incident_type : {"unset"}]
EvaluationData == [incident_id : 1..MaxId, confidence_score : Scores,
                   incident_type : IncidentTypes]

\* Server messages reaching the incident store.
NextIncidents ==
  \/ \E data \in InitData(ShipLists, {EmptyMap, FullMap(BoxA)}, BOOLEAN) : onInit(data) /\ UNCHANGED dispatchVars
  \/ \E data \in ModeData(BOOLEAN) : onModeChange(data) /\ UNCHANGED dispatchVars
  \/ \E data \in ShipLists : onShips(data) /\ UNCHANGED dispatchVars
  \/ \E data \in IncidentData :
       Len(incidents) < MaxIncidents /\ onIncident(data) /\ UNCHANGED dispatchVars
  \/ \E data \in EvaluationData : onEvaluation(data) /\ UNCHANGED dispatchVars

\* Server snapshots interleaved with the operator's zone edits.
NextZones ==
  \/ \E data \in InitData({<<1>>}, ZoneSnapshots, {TRUE}) : onInit(data) /\ UNCHANGED dispatchVars
  \/ \E data \in ModeData({TRUE}) : onModeChange(data) /\ UNCHANGED dispatchVars
  \/ \E data \in {<<1>>} : onShips(data) /\ UNCHANGED dispatchVars
  \/ toggleEditZones
  \/ \E name \in ZoneNames, lng \in PressLng, lat \in MouseLat : mousedown(name, lng, lat)
  \/ \E lng \in MoveLng, lat \in MouseLat : mousemove(lng, lat)
  \/ mouseup
  \/ \E name \in ZoneNames, lng \in ResizeLng : resizeDrag(name, lng)
  \/ dragend

Init == InitConn /\ InitStore /\ page = "App"

\* Number of sockets followed when the session carries messages.
SessionSockets == 3

\* One session of the App page: connection events, re-renders and frames.
NextSession ==
  \/ \E s \in 1..Len(sockets) : onopen(s)
  \/ \E s \in 1..Len(sockets) : onclose(s)
  \/ \E s \in 1..Len(sockets) : onerror(s)
  \/ \E t \in 1..Len(timeouts) : Len(sockets) < SessionSockets /\ connect(t)
  \/ render
  \/ \E s \in 1..Len(sockets) : onmessage(s, Garbage)
  \/ \E s \in 1..Len(sockets) : onmessage(s, Envelope("ships", <<1>>))
  \/ \E s \in 1..Len(sockets) : onmessage(s, Envelope("heartbeat", 0))

\* Every message type reaching either page over the first socket.
NextDispatch ==
  \/ \E s \in 1..Len(sockets) : onopen(s)
  \/ \E s \in 1..Len(sockets), data \in {d \in InitData({<<1>>}, {FullMap(BoxA)}, {TRUE}) : d.demo_mode} :
       onmessage(s, Envelope("init", data))
  \/ \E s \in 1..Len(sockets), data \in {<<1>>} : onmessage(s, Envelope("ships", data))
  \/ \E s \in 1..Len(sockets), data \in {d \in IncidentData : d.id = 1} :
       onmessage(s, Envelope("incident", data))
  \/ \E s \in 1..Len(sockets), data \in {d \in EvaluationData : d.incident_id = 1} :
       onmessage(s, Envelope("evaluation", data))
  \/ \E s \in 1..Len(sockets), data \in AgentData : onmessage(s, Envelope("agent_status", data))
  \/ \E s \in 1..Len(sockets), data \in ThresholdData :
       onmessage(s, Envelope("threshold_update", data))
  \/ \E s \in 1..Len(sockets), data \in Reports : onmessage(s, Envelope("report", data))
  \/ \E s \in 1..Len(sockets), data \in {d \in ModeData({TRUE}) : d.demo_mode} :
       onmessage(s, Envelope("mode_change", data))
  \/ \E s \in 1..Len(sockets) : onmessage(s, Envelope("heartbeat", 0))
  \/ \E s \in 1..Len(sockets), type \in UnroutedTypes : onmessage(s, Envelope(type, 0))

\* The operator selecting, tracking, investigating and deselecting vessels
\* of a feed of two while the requests are answered in any order.
NextOverlay ==
  \/ \E data \in {<<2, 1>>} : optCall("onShips", data) /\ UNCHANGED dispatchVars
  \/ \E data \in Reports : optCall("onReport", data) /\ UNCHANGED dispatchVars
  \/ \E mmsi \in {0, 1, 2} : onSelectShip(mmsi)
  \/ trackShip
  \/ \E mmsi \in {1, 2} : submitInvestigation(mmsi)
  \/ \E c \in 1..Len(calls), ok \in BOOLEAN : trackResponse(c, ok)
  \/ \E c \in 1..Len(calls) : fallbackResponse(c)
  \/ \E c \in 1..Len(calls), ok \in BOOLEAN : investigateResponse(c, ok)
  \/ \E c \in 1..Len(calls) : unmatchedResponse(c)

\* Incidents delivered with ids in the order the server issues them, any
\* delivered one redelivered at any time, until a mode change empties the page.
CapIncident(id) == [id |-> id, confidence_score |-> NoScore, incident_type |-> "unset"]
NextCap ==
  \/ \E id \in 1..MaxDelivered :
       /\ id \in incidentIds \/ id = Cardinality(incidentIds) + 1
       /\ onIncident(CapIncident(id))
       /\ UNCHANGED dispatchVars
  \/ \E data \in {d \in ModeData({TRUE}) : d.demo_mode} :
       onModeChange(data) /\ UNCHANGED dispatchVars

\* The click handler of the ships layer: shipsData.current[mmsi] || null.
clickLookup(mmsi) == IF mmsi \in shipsData THEN mmsi ELSE 0

\* Vessel lists arriving in init and ships messages, over successive sockets.
NextShips ==
  \/ \E s \in 1..Len(sockets) : onopen(s)
  \/ \E s \in 1..Len(sockets) : onclose(s)
  \/ \E s \in 1..Len(sockets) : onerror(s)
  \/ \E t \in 1..Len(timeouts) : Len(sockets) < SessionSockets /\ connect(t)
  \/ \E s \in 1..Len(sockets), data \in ShipLists : onmessage(s, Envelope("ships", data))
  \/ \E s \in 1..Len(sockets), data \in InitData({<<2>>}, {FullMap(BoxA)}, {TRUE}) :
       onmessage(s, Envelope("init", data))

\* Frames without data among well-formed ones, over successive sockets.
NoDataTypes == {"init", "mode_change", "incident", "evaluation", "agent_status",
                "threshold_update", "report"}
NextThrow ==
  \/ \E s \in 1..Len(sockets) : onopen(s)
  \/ \E s \in 1..Len(sockets) : onclose(s)
  \/ \E s \in 1..Len(sockets) : onerror(s)
  \/ \E t \in 1..Len(timeouts) : Len(sockets) < SessionSockets /\ connect(t)
  \/ \E s \in 1..Len(sockets), type \in NoDataTypes : onmessage(s, NoData(type))
  \/ \E s \in 1..Len(sockets), data \in {d \in IncidentData : d.id = 1} :
       onmessage(s, Envelope("incident", data))
  \/ \E s \in 1..Len(sockets) : onmessage(s, Envelope("ships", <<1>>))
  \/ renderThrows

\* The transient state of either page being filled and reset: the handlers
\* are called as dispatch calls them, and a vessel is selected and tracked.
NextReset ==
  \/ \E data \in {d \in ModeData({TRUE}) : d.demo_mode} :
       optCall("onModeChange", data) /\ UNCHANGED dispatchVars
  \/ \E data \in {<<1>>} : optCall("onShips", data) /\ UNCHANGED dispatchVars
  \/ \E data \in IncidentData : optCall("onIncident", data) /\ UNCHANGED dispatchVars
  \/ \E data \in ThresholdData : optCall("onThresholdUpdate", data) /\ UNCHANGED dispatchVars
  \/ \E data \in Reports : optCall("onReport", data) /\ UNCHANGED dispatchVars
  \/ \E data \in {d \in AgentData : d.stage = "evaluating"} :
       optCall("onAgentStatus", data) /\ UNCHANGED dispatchVars
  \/ \E mmsi \in {0, 1} : onSelectShip(mmsi)
  \/ trackShip
  \/ \E c \in 1..Len(calls), ok \in BOOLEAN : trackResponse(c, ok)
  \/ \E c \in 1..Len(calls) : fallbackResponse(c)
  \/ \E c \in 1..Len(calls) : unmatchedResponse(c)

\* The dashboard's zones under server messages and the operator's deletes
\* and additions.
NextDashboard ==
  \/ \E data \in {d \in InitData({<<1>>}, ZoneSnapshots, {TRUE}) : d.demo_mode} :
       optCall("onInit", data) /\ UNCHANGED dispatchVars
  \/ \E data \in {d \in ModeData({TRUE}) : d.demo_mode} :
       optCall("onModeChange", data) /\ UNCHANGED dispatchVars
  \/ \E data \in {<<1>>} : optCall("onShips", data) /\ UNCHANGED dispatchVars
  \/ toggleEditZones
  \/ \E name \in ZoneNames \cup {ZoneName(k) : k \in 1..MaxZones} : handleDeleteZone(name)
  \/ \E lng \in MoveLng, lat \in MouseLat : handleAddZone(lng, lat)

\* The connection manager alone.
SpecConn == Init /\ [][NextConn]_vars
\* The incident store under server messages.
SpecIncidents == Init /\ [][NextIncidents]_vars
\* The zone store under server snapshots and local edits.
SpecZones == Init /\ [][NextZones]_vars
\* The connection carrying frames to the App page.
SpecSession == Init /\ [][NextSession]_vars
\* The incident collection filled past its cap.
SpecCap == Init /\ [][NextCap]_vars
\* App receiving vessel lists.
SpecShips == Init /\ [][NextShips]_vars
\* App receiving frames without data.
SpecThrow == Init /\ [][NextThrow]_vars
\* Either page mounted.
InitAnyPage == InitConn /\ InitStore /\ page \in {"App", "DashboardPage"}
\* The dispatch table under every message type, for either page.
SpecDispatch == InitAnyPage /\ [][NextDispatch]_vars
\* DashboardPage mounted.
InitDashboard == InitConn /\ InitStore /\ page = "DashboardPage"
\* The zones of the dashboard.
SpecDashboard == InitDashboard /\ [][NextDashboard]_vars
\* The investigation overlay of the dashboard.
SpecOverlay == InitDashboard /\ [][NextOverlay]_vars
\* Filling and resetting the transient state of either page.
SpecReset == InitAnyPage /\ [][NextReset]_vars

TypeOKConn ==
  /\ wsCurrent = Len(sockets)
  /\ retryTimeout \in 0..Len(timeouts)
  /\ retries \in 0..MaxSockets
  /\ pings \in 0..MaxPings

\* Retries are delivered and pending close events of a closing socket arrive.
SpecConnFair ==
  /\ SpecConn
  /\ WF_vars(\E t \in 1..Len(timeouts) : connect(t))
  /\ WF_vars(\E s \in 1..Len(sockets) : sockets[s].readyState = "CLOSING" /\ onclose(s))

\* ================================================================ claims
ServerMsgs == {"init", "ships", "incident", "evaluation", "mode_change"}

\* The geometry derived from the server bounding box alone.
Canonical(hz) == getZoneGeo("", hz, EmptyMap)

\* C1: after any sequence of server messages the visible incident collection
\* never holds two incidents with the same id.
C1_NoDuplicateIncidents ==
  \A i, j \in 1..Len(incidents) : i # j => incidents[i].id # incidents[j].id

\* C2: init and ships messages leave the override map as it was, no server
\* message creates or modifies an override, and every drawn zone that has an
\* override is drawn with it.
C2_OverridesSurviveSnapshots ==
  [][LET m == lastMsg' IN
       /\ m \in {"init", "ships"} => zoneOverrides' = zoneOverrides
       /\ m \in ServerMsgs =>
            \A n \in DOMAIN zoneOverrides' :
               n \in DOMAIN zoneOverrides /\ zoneOverrides'[n] = zoneOverrides[n]
       /\ DOMAIN hotzoneSource' = DOMAIN hotzones'
       /\ \A n \in DOMAIN hotzones' \cap DOMAIN zoneOverrides' :
             hotzoneSource'[n] = zoneOverrides'[n]]_vars

\* An init has just delivered a box for an overridden zone whose canonical
\* geometry differs from the override.
C2_Witness ==
  /\ lastMsg = "init"
  /\ "Hormuz" \in DOMAIN zoneOverrides \cap DOMAIN hotzones
  /\ hotzones["Hormuz"] = BoxB
  /\ Canonical(hotzones["Hormuz"]) # zoneOverrides["Hormuz"]
  /\ hotzoneSource["Hormuz"] = zoneOverrides["Hormuz"]

\* C3: right after a mode_change message no zone override is left and every
\* zone is drawn with its canonical geometry.
C3_ModeChangeClearsOverrides ==
  lastMsg = "mode_change" =>
    /\ zoneOverrides = EmptyMap
    /\ \A n \in DOMAIN hotzoneSource : hotzoneSource[n] = Canonical(hotzones[n])

\* C4: after teardown no reconnect timeout and no heartbeat interval is pending.
C4_NoTimerAfterTeardown ==
  torn => PendingTimeouts = {} /\ ActiveIntervals = {}

\* C5: once teardown has run, no ping frame is sent and no socket is created.
C5_QuietAfterTeardown ==
  [][torn => pings' = pings /\ Len(sockets') = Len(sockets)]_vars

\* A heartbeat tick ran after teardown.
C5_Witness ==
  torn /\ lastEv.type = "tick"

\* The documented schedule 1000, 2000, 4000, 8000, 15000, 15000, ...
ExpectedDelay(k) ==
  CASE k = 0 -> 1000
    [] k = 1 -> 2000
    [] k = 2 -> 4000
    [] k = 3 -> 8000
    [] OTHER -> 15000

\* C6: the k-th delay scheduled since the last successful open follows the
\* documented schedule, is non-decreasing and never exceeds 15000.
C6_BackoffSequence ==
  \A k \in 1..Len(delays) :
     /\ delays[k] = ExpectedDelay(k - 1)
     /\ delays[k] <= 15000
     /\ k > 1 => delays[k - 1] <= delays[k]

\* Six closes in a row without an open: the cap has been hit twice.
C6_Witness ==
  Len(delays) >= 6

\* C7: retries becomes 0 on every open, changes otherwise only by +1 on a close,
\* and the close of a socket that had opened schedules a delay of 1000.
C7_RetryReset ==
  [][LET e == lastEv' IN
       /\ e.type = "open" => retries' = 0
       /\ retries' # retries =>
            \/ e.type = "open"
            \/ e.type = "close" /\ retries' = retries + 1
       /\ (e.type = "close" /\ sockets[e.sock].onclose
             /\ sockets[e.sock].pingInterval # "none") =>
            timeouts'[Len(timeouts')].delay = 1000]_vars

\* A socket opened after two failed attempts has closed, with 1000 scheduled.
C7_Witness ==
  /\ lastEv.type = "close"
  /\ Len(timeouts) >= 3
  /\ timeouts[Len(timeouts) - 1].delay = 2000
  /\ timeouts[Len(timeouts)].delay = 1000

\* C8: a ping is sent only by a tick that finds the current socket OPEN, before
\* teardown; a tick that finds its socket in any other state sends nothing.
C8_PingOnlyWhileOpen ==
  [][LET e == lastEv' IN
       /\ pings' # pings =>
            /\ e.type = "tick"
            /\ e.sock = wsCurrent
            /\ sockets[e.sock].readyState = "OPEN"
            /\ ~torn
       /\ (e.type = "tick" /\ sockets[e.sock].readyState # "OPEN") => pings' = pings]_vars

\* A tick found its socket closing.
C8_Witness ==
  /\ lastEv.type = "tick"
  /\ sockets[lastEv.sock].readyState = "CLOSING"
  /\ pings < MaxPings

\* C9: an error leaves its socket closing or closed and counts nothing; a close
\* with the handler attached emits one disconnected event, adds one to retries
\* and leaves exactly one, new, reconnect timer pending; each closed socket was
\* counted once.
C9_ErrorClosePath ==
  [][LET e == lastEv' IN
       /\ e.type = "error" =>
            /\ sockets'[e.sock].readyState \in {"CLOSING", "CLOSED"}
            /\ retries' = retries
            /\ nDisconnected' = nDisconnected
            /\ timeouts' = timeouts
       /\ (e.type = "close" /\ sockets[e.sock].onclose) =>
            /\ sockets'[e.sock].readyState = "CLOSED"
            /\ nDisconnected' = nDisconnected + 1
            /\ retries' = retries + 1
            /\ Len(timeouts') = Len(timeouts) + 1
            /\ {t \in 1..Len(timeouts') : timeouts'[t].state = "pending"} = {Len(timeouts')}
            /\ Cardinality({s \in 1..Len(sockets') :
                  sockets'[s].readyState = "CLOSED" /\ sockets'[s].onclose}) = nDisconnected'
            /\ Len(timeouts') = nDisconnected']_vars

\* The close forced by an error on an open socket has been handled.
C9_Witness ==
  /\ lastEv.type = "close"
  /\ lastEv.from = "CLOSING"
  /\ sockets[lastEv.sock].onclose
  /\ sockets[lastEv.sock].pingInterval = "cleared"
  /\ nDisconnected >= 2

\* C10 as stated: before teardown a socket is Connecting or Open, or a
\* reconnect timer is pending.
C10_LiveOrTimer ==
  ~torn => LiveSockets # {} \/ PendingTimeouts # {}

\* C10 amended: before teardown the current socket is Connecting, Open, or
\* Closing with its close handler attached, or a reconnect timer is pending;
\* and once the current socket is closing or closed a new socket is eventually
\* created unless the session is torn down.
C10_SelfHealing ==
  /\ [](~torn =>
          \/ LiveSockets # {}
          \/ PendingTimeouts # {}
          \/ sockets[wsCurrent].readyState = "CLOSING" /\ sockets[wsCurrent].onclose)
  /\ \A n \in 1..(MaxSockets - 1) :
        (Len(sockets) = n /\ sockets[n].readyState \in {"CLOSING", "CLOSED"} /\ ~torn)
           ~> (torn \/ Len(sockets) > n)

\* After a disconnect a new attempt is under way.
C10_Witness ==
  /\ ~torn
  /\ nDisconnected >= 1
  /\ Len(sockets) >= 2
  /\ sockets[Len(sockets)].readyState = "CONNECTING"

\* ------------------------------------------------------------------ C14
\* C14 as stated: the set of known incident ids never loses an element on
\* any message other than mode_change.
C14_IdsShrinkOnlyOnModeChange ==
  [][lastMsg' # "mode_change" => incidentIds \subseteq incidentIds']_vars

\* C14 amended: the set of known incident ids never loses an element on any
\* message other than init and mode_change, and each of those two empties it.
C14_IdsShrinkOnlyOnReset ==
  [][/\ lastMsg' \notin {"init", "mode_change"} => incidentIds \subseteq incidentIds'
     /\ lastMsg' \in {"init", "mode_change"} => incidentIds' = {}]_vars

\* An init has emptied the set while the incidents it knew are still held.
C14_Witness ==
  /\ lastMsg = "init"
  /\ incidentIds = {}
  /\ Len(incidents) = MaxIncidents

\* ------------------------------------------------------------------ C15
\* C15: an init message empties the de-dup set and leaves the incident
\* collection as it was; only a mode_change empties a non-empty collection.
C15_InitKeepsIncidents ==
  [][/\ lastMsg' = "init" => incidentIds' = {} /\ incidents' = incidents
     /\ (incidents # <<>> /\ incidents' = <<>>) => lastMsg' = "mode_change"]_vars

\* An init has just been handled and an evaluated incident is still shown.
C15_Witness ==
  /\ lastMsg = "init"
  /\ incidents # <<>>
  /\ incidents[1].confidence_score # NoScore
  /\ incidentIds = {}

\* ------------------------------------------------------------------ C16
\* C16: an evaluation whose incident_id matches no incident of the collection
\* leaves the collection and the de-dup set exactly as they were.
C16_UnknownEvaluationIsNoOp ==
  [][(/\ lastMsg' = "evaluation"
      /\ \A i \in 1..Len(incidents) :
           incidents[i].id # lastData'["evaluation"].incident_id)
       => incidents' = incidents /\ incidentIds' = incidentIds]_vars

\* An evaluation for an id that no held incident carries has been handled.
C16_Witness ==
  /\ lastMsg = "evaluation"
  /\ incidents # <<>>
  /\ \A i \in 1..Len(incidents) : incidents[i].id # lastData["evaluation"].incident_id

\* ------------------------------------------------------------------ C17
\* C17: an evaluation rewrites exactly the incidents carrying its incident_id
\* (score and classification), keeps every other record and the order; an
\* incident that is inserted arrives as the server sent it, unscored, whatever
\* evaluations came before it.
C17_EvaluationHitsPresentMatch ==
  [][/\ lastMsg' = "evaluation" =>
          LET d == lastData'["evaluation"]
          IN /\ Len(incidents') = Len(incidents)
             /\ \A i \in 1..Len(incidents) :
                  IF incidents[i].id = d.incident_id
                    THEN incidents'[i] = [id |-> incidents[i].id,
                                          confidence_score |-> d.confidence_score,
                                          incident_type |-> d.incident_type]
                    ELSE incidents'[i] = incidents[i]
     /\ (lastMsg' = "incident" /\ incidents' # incidents) =>
          /\ incidents'[1] = lastData'["incident"]
          /\ incidents'[1].confidence_score = NoScore
          /\ SubSeq(incidents', 2, Len(incidents')) = incidents]_vars

\* An evaluation has scored its incident while another incident stays unscored.
C17_Witness ==
  /\ lastMsg = "evaluation"
  /\ \E i, j \in 1..Len(incidents) :
       /\ incidents[i].id = lastData["evaluation"].incident_id
       /\ incidents[i].confidence_score # NoScore
       /\ incidents[j].id # incidents[i].id
       /\ incidents[j].confidence_score = NoScore

\* A step of onmessage: every frame flips the bit of lastFrame.
MessageStep == lastFrame'.tick # lastFrame.tick

\* ------------------------------------------------------------------ C11
\* C11: a frame that is not JSON ends inside onmessage (caught), runs no
\* handler and writes no store, and leaves the connection as it was: the
\* socket open, its heartbeat interval active, retries and timers unchanged;
\* the JSON frame that follows a bad one is dispatched to its handler.
C11_MalformedFrameTolerated ==
  [][MessageStep =>
       /\ ~lastFrame'.json =>
            /\ lastFrame'.outcome = "caught"
            /\ UNCHANGED <<entityVars, zoneVars, dashVars, lastMsg, lastData>>
            /\ connVars' = connVars
            /\ \E s \in 1..Len(sockets') :
                 /\ sockets'[s].readyState = "OPEN"
                 /\ sockets'[s].pingInterval = "active"
       /\ (lastFrame'.json /\ lastFrame'.prev = "caught") =>
            /\ lastFrame'.outcome = "dispatched"
            /\ HandlerOf(lastFrame'.type) \in Registered(page) =>
                 /\ lastMsg' = lastFrame'.type
                 /\ lastData' = lastFrame'.data]_vars

\* A ships message has been handled right after a frame that was not JSON,
\* on a socket opened by a reconnect.
C11_Witness ==
  /\ lastFrame.json
  /\ lastFrame.prev = "caught"
  /\ lastFrame.type = "ships"
  /\ lastMsg = "ships"
  /\ ships = <<1>>
  /\ Len(sockets) > 1

\* ------------------------------------------------------------------ C12
\* C12: dispatch reads the handler set of the latest registration at the time
\* the frame arrives, whichever socket delivers it.
C12_LatestHandlers ==
  [][(MessageStep /\ lastFrame'.json) => lastFrame'.handlers = renders]_vars

\* The only socket, created at mount before any re-render, has delivered a
\* frame that was dispatched to the newest registration.
C12_Witness ==
  /\ lastFrame.json
  /\ lastFrame.handlers = MaxRenders
  /\ Len(sockets) = 1

\* ------------------------------------------------------------------ C13
\* The routing table as the claim states it.
C13_Table ==
  [init |-> "onInit", ships |-> "onShips", incident |-> "onIncident",
   evaluation |-> "onEvaluation", agent_status |-> "onAgentStatus",
   threshold_update |-> "onThresholdUpdate", report |-> "onReport",
   mode_change |-> "onModeChange"]

\* C13: a decoded envelope of one of the eight routed types whose handler the
\* page registered runs that handler, once, with the envelope's data; an
\* envelope of a routed type without registered handler, a heartbeat and any
\* other or missing type run no handler and write no store.
C13_RoutingByType ==
  [][(MessageStep /\ lastFrame'.json) =>
       LET t == lastFrame'.type
       IN IF t \in DOMAIN C13_Table /\ C13_Table[t] \in Registered(page)
            THEN /\ lastMsg' = t
                 /\ lastData' = lastFrame'.data
            ELSE UNCHANGED <<entityVars, zoneVars, dashVars, lastMsg, lastData>>]_vars

\* DashboardPage, which registers no incident handler, has received an
\* incident message: no incident is stored and the mark of the handler that
\* ran before it still stands.
C13_Witness ==
  /\ page = "DashboardPage"
  /\ lastFrame.json
  /\ lastFrame.type = "incident"
  /\ lastMsg = "ships"
  /\ incidents = <<>>

\* ------------------------------------------------------------------ C18
\* C18: after a mode_change message the vessels, the incidents, the de-dup
\* set, the thresholds, the report and the investigation overlays are empty
\* and the agent status is idle, whatever they were before.
C18_ModeChangeResets ==
  [][lastMsg' = "mode_change" =>
       /\ ships' = <<>>
       /\ incidents' = <<>>
       /\ incidentIds' = {}
       /\ thresholds' = EmptyMap
       /\ report' = "null"
       /\ showReport' = FALSE
       /\ investigatedVessel' = 0
       /\ gfwPath' = 0
       /\ unmatchedPoints' = 0
       /\ investigating' = FALSE
       /\ agentStatus' = "idle"]_vars

\* A mode_change has just been handled on the dashboard after a vessel track
\* had been loaded completely.
C18_Witness ==
  /\ lastMsg = "mode_change"
  /\ page = "DashboardPage"
  /\ \E c \in 1..Len(calls) : calls[c].pc = "done"
  /\ selectedShip # 0
  /\ gfwPath = 0
  /\ unmatchedPoints = 0

\* ------------------------------------------------------------------ C19
\* The geometry a zone must be shown with: its override when there is one,
\* the canonical geometry of its bounding box otherwise.
C19_Geo(name, hz, overrides) ==
  IF name \in DOMAIN overrides THEN overrides[name] ELSE Canonical(hz[name])

C20_DeletedUntilReset ==
  [][/\ lastMsg' \in {"init", "ships"} =>
          \A name \in deletedZones' : name \notin DOMAIN hotzoneSource'
     /\ lastMsg' = "mode_change" =>
          \A name \in DOMAIN hotzones' : name \in DOMAIN hotzoneSource']_vars

\* ------------------------------------------------------------------ C25
\* C25 as stated: before teardown a heartbeat interval is running exactly for
\* the sockets that are OPEN.
C25_TimerIffOpen ==
  ~torn => \A s \in 1..Len(sockets) :
             sockets[s].pingInterval = "active" <=> sockets[s].readyState = "OPEN"

\* C25 amended: before teardown every OPEN socket has its heartbeat interval
\* running, an interval runs only for a socket that is OPEN or CLOSING, there
\* is at most one, the open event starts it and the close handler stops it.
C25_TimerWhileOpenOrClosing ==
  [][~torn' =>
       /\ \A s \in 1..Len(sockets') :
            /\ sockets'[s].readyState = "OPEN" => sockets'[s].pingInterval = "active"
            /\ sockets'[s].pingInterval = "active" =>
                 sockets'[s].readyState \in {"OPEN", "CLOSING"}
       /\ Cardinality({s \in 1..Len(sockets') : sockets'[s].pingInterval = "active"}) <= 1
       /\ lastEv'.type = "open" =>
            /\ sockets[lastEv'.sock].pingInterval = "none"
            /\ sockets'[lastEv'.sock].pingInterval = "active"
       /\ lastEv'.type = "close" => sockets'[lastEv'.sock].pingInterval # "active"]_vars

\* Before teardown a socket that was open is closing and its interval still
\* runs, after an earlier socket's interval was stopped by its close handler.
C25_Witness ==
  /\ ~torn
  /\ \E s, u \in 1..Len(sockets) :
       /\ sockets[s].readyState = "CLOSING"
       /\ sockets[s].pingInterval = "active"
       /\ sockets[u].pingInterval = "cleared"

\* ------------------------------------------------------------------ C26
\* C26: at most one socket is CONNECTING or OPEN, at most one reconnect timer
\* is pending, a timer is pending only while no socket is CONNECTING or OPEN,
\* and connect() creates a socket only when every earlier one is CLOSED.
C26_SingleSocketSingleTimer ==
  [][/\ Cardinality({s \in 1..Len(sockets') :
                       sockets'[s].readyState \in {"CONNECTING", "OPEN"}}) <= 1
     /\ Cardinality({t \in 1..Len(timeouts') : timeouts'[t].state = "pending"}) <= 1
     /\ (\E t \in 1..Len(timeouts') : timeouts'[t].state = "pending") =>
          \A s \in 1..Len(sockets') : sockets'[s].readyState \notin {"CONNECTING", "OPEN"}
     /\ lastEv'.type = "connect" =>
          \A s \in 1..Len(sockets) : sockets[s].readyState = "CLOSED"]_vars

\* The third socket is open after two reconnects.
C26_Witness ==
  /\ Len(sockets) = 3
  /\ sockets[3].readyState = "OPEN"
  /\ PendingTimeouts = {}
  /\ lastEv.type = "open"

\* ------------------------------------------------------------------ C30
\* What C30 says of the flag itself: before teardown it is true only while
\* the current socket is OPEN or CLOSING and whenever it is OPEN, it turns
\* true only on the open event and is false after every close handler.
C30_FlagFollowsSocket ==
  /\ (connected' /\ ~torn') =>
       wsCurrent' # 0 /\ sockets'[wsCurrent'].readyState \in {"OPEN", "CLOSING"}
  /\ (~torn' /\ wsCurrent' # 0 /\ sockets'[wsCurrent'].readyState = "OPEN") => connected'
  /\ (connected' /\ ~connected) => lastEv'.type = "open"
  /\ lastEv'.type = "open" => connected'
  /\ (lastEv'.type = "close" /\ ~torn') => ~connected'
  /\ nDisconnected' # nDisconnected => ~connected'

\* C30 as stated: the flag follows the socket, and exactly one disconnected
\* event lies between two consecutive connected events.
C30_ExactlyOneDisconnect ==
  [][/\ C30_FlagFollowsSocket
     /\ (lastEv'.type = "open" /\ nConnected >= 1) => Len(delays) = 1]_vars

\* C30 amended: the flag follows the socket, and at least one disconnected
\* event lies between two consecutive connected events.
C30_AtLeastOneDisconnect ==
  [][/\ C30_FlagFollowsSocket
     /\ (lastEv'.type = "open" /\ nConnected >= 1) => Len(delays) >= 1]_vars

\* A second connected event has come after two disconnected events.
C30_Witness ==
  /\ lastEv.type = "open"
  /\ connected
  /\ nConnected = 2
  /\ nDisconnected = 2

\* ------------------------------------------------------------------ C24
\* C24: a run of the teardown on a session that is already torn down changes
\* nothing: sockets, timers, retries, the connected flag and the event counts
\* are those the first run left.
C24_TeardownIdempotent ==
  [][(torn /\ lastEv'.type = "cleanup") =>
       UNCHANGED <<sockets, wsCurrent, retryTimeout, timeouts, retries, torn,
                   connected, pings, nConnected, nDisconnected, delays>>]_vars

\* The teardown has run again after the first run closed the open socket and
\* its close event arrived: no timer was ever scheduled.
C24_Witness ==
  /\ torn
  /\ lastEv.type = "cleanup"
  /\ lastEv.from = "CLOSED"
  /\ timeouts = <<>>

\* ------------------------------------------------------------------ C23
\* The sockets whose onopen has run: onopen is the only place an interval is
\* created, right after onConnect.
C23_Opened == {s \in 1..Len(sockets) : sockets[s].pingInterval # "none"}

\* C23: the connected event of an epoch is emitted with retries already reset
\* to 0, and a message is dispatched only in an epoch whose connected event
\* has been emitted: the current socket has run onopen, there is one connected
\* event per opened socket, the flag is set and retries is still 0.
C23_ConnectedBeforeMessages ==
  [][/\ nConnected' # nConnected =>
          /\ retries' = 0
          /\ connected'
          /\ nConnected' = nConnected + 1
          /\ C23_Opened' = C23_Opened \cup {wsCurrent}
     /\ MessageStep =>
          /\ wsCurrent \in C23_Opened
          /\ sockets[wsCurrent].readyState = "OPEN"
          /\ nConnected = Cardinality(C23_Opened)
          /\ connected
          /\ retries = 0]_vars

\* A message has been dispatched in the second epoch, which began with
\* retries at 1.
C23_Witness ==
  /\ lastFrame.outcome = "dispatched"
  /\ lastFrame.type = "ships"
  /\ ships = <<1>>
  /\ nConnected = 2
  /\ wsCurrent = 2
  /\ sockets[2].readyState = "OPEN"

\* ------------------------------------------------------------------ C27
\* A message step in which the handler threw.
C27_ThrowStep == MessageStep /\ lastFrame'.outcome = "threw"

\* C27: a handler that throws is caught inside onmessage: the step changes
\* nothing of the connection (socket open, no timer scheduled), what the
\* handler stored before the throw is in the store; and afterwards the socket
\* stays open for later messages: only a transport event (error, close) ends
\* the epoch of a socket whose last frame made its handler throw.
C27_HandlerThrowContained ==
  [][/\ C27_ThrowStep =>
          /\ connVars' = connVars
          /\ sockets'[wsCurrent].readyState = "OPEN"
          /\ PendingTimeouts' = {}
          /\ lastFrame'.type = "report" =>
               report' = "undefined" /\ showReport' /\ ~investigating'
          /\ lastFrame'.type = "agent_status" => agentStatus' = "undefined"
     /\ (lastFrame.outcome = "threw" /\ sockets[wsCurrent].readyState = "OPEN") =>
          \/ sockets'[wsCurrent].readyState = "OPEN"
          \/ lastEv'.type \in {"error", "close"}]_vars

\* ------------------------------------------------------------------ C21
\* The mmsi a message can carry.
C21_Mmsis == UNION {Range(l) : l \in ShipLists}

\* A ships message writes the vessel collection, which becomes the list of
\* the message, and no other store of the page.
C21_ShipsOnly ==
  /\ ships' = lastFrame'.data["ships"]
  /\ UNCHANGED <<incidents, incidentIds, agentStatus, thresholds, report, showReport,
                 demoMode, hasLiveKey, modeSwitching>>
  /\ UNCHANGED <<hotzones, zoneOverrides, editZones>>
  /\ UNCHANGED dashVars

\* C21: after a ships message the vessel collection is the message's list, no
\* other store has changed, and a vessel the list omits is unknown to the
\* client: the map's click lookup has nothing under its mmsi.
C21_ShipsFullReplace ==
  [][(MessageStep /\ lastFrame'.type = "ships") =>
       /\ C21_ShipsOnly
       /\ \A mmsi \in C21_Mmsis \ Range(ships') : clickLookup(mmsi)' = 0]_vars

\* ------------------------------------------------------------------ C29
\* C29: after an incident message the collection holds at most 50 incidents,
\* newest first (ids are issued in delivery order).  An incident whose id is
\* in the de-dup set, an evicted one included, leaves the collection as it
\* was; a new one goes to the front, the others follow in their order, and
\* the one that was last of 50 is gone.
C29_CappedNewestFirst ==
  [][lastMsg' = "incident" =>
       LET d == lastData'["incident"]
       IN /\ Len(incidents') <= 50
          /\ \A i \in 1..Len(incidents') - 1 : incidents'[i].id > incidents'[i + 1].id
          /\ IF d.id \in incidentIds
               THEN incidents' = incidents
               ELSE /\ incidents'[1] = d
                    /\ Len(incidents') = IF Len(incidents) = 50 THEN 50 ELSE Len(incidents) + 1
                    /\ \A i \in 2..Len(incidents') : incidents'[i] = incidents[i - 1]]_vars

\* Incident 1 was evicted by the 51st and has been redelivered: the
\* collection holds incidents 51 to 2.
C29_Witness ==
  /\ lastMsg = "incident"
  /\ lastData["incident"].id = 1
  /\ Cardinality(incidentIds) = 51
  /\ Len(incidents) = 50
  /\ incidents[1].id = 51
  /\ incidents[50].id = 2

\* ------------------------------------------------------------------ C22
\* C22: the start of a track or of an investigation empties both parts of the
\* overlay, and while no vessel is selected (a request start selects one, so
\* this is the time from a deselect to the next request start) the overlay is
\* empty.
C22_OverlayClearedUntilNewRequest ==
  [][/\ Len(calls') > Len(calls) => gfwPath' = 0 /\ unmatchedPoints' = 0
     /\ selectedShip' = 0 => gfwPath' = 0 /\ unmatchedPoints' = 0]_vars

\* ------------------------------------------------------------------ C28
\* C28: what the overlay shows belongs to the request made last, and nothing
\* is shown once the vessel has been deselected: a path or a set of unmatched
\* points is that of the mmsi of the latest call, with a vessel selected.
C28_OverlayOfLatestRequest ==
  \A o \in {gfwPath, unmatchedPoints} :
    o # 0 => /\ calls # <<>>
             /\ o = calls[Len(calls)].mmsi
             /\ selectedShip # 0

====
